---------------------------- MODULE Spec2Model ----------------------------
(***************************************************************************)
(* Model of mflowgen's "param" command handler (param_handler.py) and of   *)
(* the register arrays of the instruction buffer datapath                  *)
(* (InstBufferDpath.py).                                                   *)
(*                                                                         *)
(* Spec      : the command handler run against an elaborated build graph.  *)
(* SpecDpath : the datapath's registers, one step per clock edge.          *)
(***************************************************************************)
EXTENDS Integers, Sequences, FiniteSets, TLC

VARIABLES
  \* ---- param handler -------------------------------------------------
  config,            \* .mflowgen metadata: step -> parameters of its configure.yml
  runscript,         \* .mflowgen metadata: step -> its mflowgen-run script
  inv,               \* the call being made: method and arguments
  out,               \* the lines the call printed
  exit,              \* 0: the call returned, 1: sys.exit( 1 )
  runs,              \* how many times in a row the call was made
  \* ---- instruction buffer datapath -----------------------------------
  reset,             \* input ports, as driven in the current cycle
  buffreq_en,
  arrays_wen_mask,
  buffreq_msg_addr,
  memresp_msg_data,
  buffreq_addr_reg,  \* registers
  tag_array,
  data_array

paramVars == << config, runscript, inv, out, exit, runs >>
dpathVars == << reset, buffreq_en, arrays_wen_mask, buffreq_msg_addr,
                memresp_msg_data, buffreq_addr_reg, tag_array, data_array >>
vars      == << config, runscript, inv, out, exit, runs,
                reset, buffreq_en, arrays_wen_mask, buffreq_msg_addr,
                memresp_msg_data, buffreq_addr_reg, tag_array, data_array >>

-----------------------------------------------------------------------------
(* Bounds *)

MaxArgs == 2   \* positional arguments on a command line
MaxStep == 3   \* step identifiers 0..MaxStep; a graph has at most MaxStep steps
MaxRuns == 2   \* consecutive runs of the same command line
MaxTag  == 1   \* request addresses carry tags 0..MaxTag
MaxData == 1   \* cache lines carry data 0..MaxData

-----------------------------------------------------------------------------
(* Python values *)

\* An optional argument: None is the empty tuple, a given value x is <<x>>.
None    == << >>
Some(x) == << x >>

\* bool( x ) of an optional string: None and '' are false.
TruthyStr(x) == x # None /\ x[1] # ""

\* bool( x ) of an optional int: None and 0 are false.
TruthyInt(x) == x # None /\ x[1] # 0

-----------------------------------------------------------------------------
(* Printed lines *)

\* print( text )
Line(text) == [ text |-> text, key |-> None, value |-> None, step |-> None ]

\* print( 'Updated parameter "{key}" = "{value}" for step "{step}"'.format(..) )
UpdatedLine(key, value, step) ==
  [ text |-> "Updated parameter", key |-> key, value |-> value, step |-> step ]

print_help ==
  << Line( "" ),
     Line( "Usage: mflowgen param update --key/-k <key> --value/-v <value> [--step/-s <int>] [--all]" ),
     Line( "" ),
     Line( "Example: mflowgen param update --key clock_period --value 2.0 --all" ),
     Line( "" ),
     Line( "Updates the parameter for the given step in the build" ),
     Line( "graph. The parameter key-value pair is only updated if" ),
     Line( "the key is defined and exists. The --all option applies" ),
     Line( "the update to all nodes in the currently elaborated graph." ),
     Line( "" ) >>

launch_help_lines ==
  << Line( "" ),
     Line( "Param Commands" ),
     Line( "" ),
     Line( " - update : Interactive update parameters" ),
     Line( "" ),
     Line( "Run any command with -h to see more details" ),
     Line( "" ) >>

UnrecognizedCommands ==
  << Line( "param: Unrecognized commands (see \"mflowgen param help\")" ) >>

UnrecognizedArgs ==
  << Line( "" ), Line( "param: Unrecognized positional args" ) >>

-----------------------------------------------------------------------------
(* The build graph's metadata *)

Keys         == { "clock_period" }
ConfigValues == { "1.0", "2.0" }

\* parameters of a configure.yml: a mapping defined on the keys it holds
ParamMaps == UNION { [ K -> ConfigValues ] : K \in SUBSET Keys }

\* an elaborated graph of n >= 1 steps, numbered 1..n
Configs == UNION { [ 1..n -> ParamMaps ] : n \in 1..MaxStep }

\* the run script of a step embeds one assignment per parameter it holds
GenerateRunScript(params) == { << k, params[k] >> : k \in DOMAIN params }

RunScriptsOf(cfg) == [ s \in DOMAIN cfg |-> GenerateRunScript( cfg[s] ) ]

-----------------------------------------------------------------------------
(* ParamHandler *)

commands == { "update", "help" }

Result(cfg, rs, lines, status) ==
  [ config |-> cfg, runscript |-> rs, out |-> lines, exit |-> status ]

\* launch_help
launch_help(cfg, rs) == Result( cfg, rs, launch_help_lines, 0 )

\* the check with "not value" left out
NeedsHelp_NoValueCheck(help_, key, value, step, all_) ==
  \/ help_
  \/ ~ TruthyStr( key )
  \/ ~ ( TruthyInt( step ) \/ all_ )

\* launch_update: "if help_ or not key or not value or not (step or all_)"
NeedsHelp(help_, key, value, step, all_) ==
  \/ help_
  \/ ~ TruthyStr( key )
  \/ ~ TruthyStr( value )
  \/ ~ ( TruthyInt( step ) \/ all_ )

\* launch_update: the block between "Implement here" and "End of
\* implementation" holds no statement; the metadata is left as it is.
Implementation(st, key, value, step, all_) == st

\* an implementation that writes the value to the steps holding the key and
\* confirms only when a file changed
launch_update_ReportChange(cfg, rs, help_, key, value, step, all_) ==
  IF NeedsHelp( help_, key, value, step, all_ )
  THEN Result( cfg, rs, print_help, 0 )
  ELSE LET targets == IF all_ THEN DOMAIN cfg
                      ELSE { step[1] } \cap DOMAIN cfg
           changed == { s \in targets : /\ key[1] \in DOMAIN cfg[s]
                                        /\ cfg[s][key[1]] # value[1] }
           cfg2    == [ s \in DOMAIN cfg |->
                          IF s \in changed
                          THEN [ cfg[s] EXCEPT ![key[1]] = value[1] ]
                          ELSE cfg[s] ]
       IN  Result( cfg2, RunScriptsOf( cfg2 ),
                   IF changed # { }
                   THEN << UpdatedLine( key, value, step ) >> ELSE << >>, 0 )

launch_update(cfg, rs, help_, key, value, step, all_) ==
  IF NeedsHelp( help_, key, value, step, all_ )
  THEN Result( cfg, rs, print_help, 0 )
  ELSE LET st == Implementation( [ config |-> cfg, runscript |-> rs ],
                                 key, value, step, all_ )
       IN  Result( st.config, st.runscript,
                   << UpdatedLine( key, value, step ) >>, 0 )

\* the check with "assert command in s.commands" left out
ValidCommand_AnyCommand(args) == Len( args ) >= 1

\* launch: "command = args[0]; assert command in s.commands" raises on an
\* empty list and on an unknown command alike.
ValidCommand(args) == Len( args ) >= 1 /\ args[1] \in commands

\* launch: "assert len( args ) <= 1" fails
ExtraArgs(args) == Len( args ) > 1

\* the help flag handed on as given
ForcedHelp_NotForced(args, help_) == help_

\* launch: the help flag as handed on after the positional-argument check
ForcedHelp(args, help_) == IF ExtraArgs( args ) THEN TRUE ELSE help_

\* launch: what an invalid command does
InvalidCommand(cfg, rs) == Result( cfg, rs, UnrecognizedCommands, 1 )

launch(cfg, rs, args, help_, key, value, step, all_) ==
  IF help_ /\ args = << >>
  THEN launch_help( cfg, rs )
  ELSE IF ~ ValidCommand( args )
  THEN InvalidCommand( cfg, rs )
  ELSE LET pre == IF ExtraArgs( args ) THEN UnrecognizedArgs ELSE << >>
           h   == ForcedHelp( args, help_ )
           r   == IF args[1] = "update"
                  THEN launch_update( cfg, rs, h, key, value, step, all_ )
                  ELSE launch_help( cfg, rs )
       IN  Result( r.config, r.runscript, pre \o r.out, r.exit )

-----------------------------------------------------------------------------
(* Command lines *)

Tokens      == commands \cup { "bogus" }
ArgLists    == UNION { [ 1..n -> Tokens ] : n \in 0..MaxArgs }
KeyInputs   == { None, Some( "" ), Some( "clock_period" ) }
ValueInputs == { None, Some( "" ), Some( "2.0" ) }
StepInputs  == { None } \cup { Some( n ) : n \in 0..MaxStep }

Call(fn, args, help_, key, value, step, all_) ==
  [ fn |-> fn, args |-> args, help_ |-> help_, key |-> key, value |-> value,
    step |-> step, all_ |-> all_ ]

NoCall == Call( "none", << >>, FALSE, None, None, None, FALSE )

\* the outcome of call c on metadata (cfg, rs)
Apply(c, cfg, rs) ==
  CASE c.fn = "launch"        -> launch( cfg, rs, c.args, c.help_, c.key,
                                         c.value, c.step, c.all_ )
    [] c.fn = "launch_update" -> launch_update( cfg, rs, c.help_, c.key,
                                                c.value, c.step, c.all_ )
    [] OTHER                  -> launch_help( cfg, rs )

Run(c) ==
  LET r == Apply( c, config, runscript )
  IN  /\ inv'       = c
      /\ config'    = r.config
      /\ runscript' = r.runscript
      /\ out'       = r.out
      /\ exit'      = r.exit
      /\ runs'      = runs + 1

\* % mflowgen param <args> [-h] [-k key] [-v value] [-s step] [--all]
Launch ==
  /\ runs = 0
  /\ \E args \in ArgLists, help_ \in BOOLEAN, key \in KeyInputs,
        value \in ValueInputs, step \in StepInputs, all_ \in BOOLEAN :
       Run( Call( "launch", args, help_, key, value, step, all_ ) )
  /\ UNCHANGED dpathVars

\* ParamHandler().launch_update( help_, key, value, step, all_ )
LaunchUpdate ==
  /\ runs = 0
  /\ \E help_ \in BOOLEAN, key \in KeyInputs, value \in ValueInputs,
        step \in StepInputs, all_ \in BOOLEAN :
       Run( Call( "launch_update", << >>, help_, key, value, step, all_ ) )
  /\ UNCHANGED dpathVars

\* ParamHandler().launch_help()
LaunchHelp ==
  /\ runs = 0
  /\ Run( Call( "launch_help", << >>, FALSE, None, None, None, FALSE ) )
  /\ UNCHANGED dpathVars

\* the same call made once more, right after the last one
Rerun ==
  /\ runs >= 1
  /\ runs < MaxRuns
  /\ Run( inv )
  /\ UNCHANGED dpathVars

\* back at the shell prompt: the next command line is a new process
Prompt ==
  /\ runs >= 1
  /\ inv'  = NoCall
  /\ out'  = << >>
  /\ exit' = 0
  /\ runs' = 0
  /\ UNCHANGED << config, runscript >>
  /\ UNCHANGED dpathVars

-----------------------------------------------------------------------------
(* InstBufferDpath *)

num_entries == 2
line_nbytes == 16
addr_nbits  == 32

RECURSIVE clog2(_)
clog2(n) == IF n <= 1 THEN 0 ELSE 1 + clog2( ( n + 1 ) \div 2 )

line_bw   == clog2( line_nbytes )
tag_nbits == addr_nbits - line_bw

Entries == 0 .. num_entries - 1
Bit     == { 0, 1 }

\* request addresses: word 1 of the line with tag t
Addrs == { t * line_nbytes + 4 : t \in 0..MaxTag }
Datas == 0 .. MaxData

\* buffreq_addr_reg.out[line_bw:addr_nbits]
TagOf(addr) == ( addr \div 2^line_bw ) % 2^tag_nbits

\* RegEnRst: the value a register takes at a clock edge
RegEnRst(rst, en, in_, cur, reset_value) ==
  IF rst = 1 THEN reset_value ELSE IF en = 1 THEN in_ ELSE cur

\* the wiring of entry i
tag_array_en(i)  == arrays_wen_mask[i]
tag_array_in(i)  == TagOf( buffreq_addr_reg )
\* every data register enabled by bit 0 of the mask
data_array_en_Bit0(i) == arrays_wen_mask[0]

data_array_en(i) == arrays_wen_mask[i]
data_array_in(i) == memresp_msg_data

\* tag_compare[i].out, wired to tag_match_mask[i]
tag_match_mask ==
  [ i \in Entries |-> IF TagOf( buffreq_addr_reg ) = tag_array[i] THEN 1 ELSE 0 ]

\* one clock edge; the ports then take the next cycle's values
Tick ==
  /\ buffreq_addr_reg' = RegEnRst( reset, buffreq_en, buffreq_msg_addr,
                                   buffreq_addr_reg, 0 )
  /\ tag_array'  = [ i \in Entries |->
                       RegEnRst( reset, tag_array_en( i ), tag_array_in( i ),
                                 tag_array[i], 0 ) ]
  /\ data_array' = [ i \in Entries |->
                       RegEnRst( reset, data_array_en( i ), data_array_in( i ),
                                 data_array[i], 0 ) ]
  /\ reset'            \in Bit
  /\ buffreq_en'       \in Bit
  /\ arrays_wen_mask'  \in [ Entries -> Bit ]
  /\ buffreq_msg_addr' \in Addrs
  /\ memresp_msg_data' \in Datas
  /\ UNCHANGED paramVars

-----------------------------------------------------------------------------
(* Specifications *)

InitParam ==
  /\ config \in Configs
  /\ runscript = RunScriptsOf( config )
  /\ inv  = NoCall
  /\ out  = << >>
  /\ exit = 0
  /\ runs = 0

\* the state sim.reset() leaves: every register at its reset value
InitRegs ==
  /\ buffreq_addr_reg = 0
  /\ tag_array  = [ i \in Entries |-> 0 ]
  /\ data_array = [ i \in Entries |-> 0 ]

InitPorts ==
  /\ reset            \in Bit
  /\ buffreq_en       \in Bit
  /\ arrays_wen_mask  \in [ Entries -> Bit ]
  /\ buffreq_msg_addr \in Addrs
  /\ memresp_msg_data \in Datas

Init ==
  /\ InitParam
  /\ InitRegs
  /\ reset = 1
  /\ buffreq_en = 0
  /\ arrays_wen_mask = [ i \in Entries |-> 0 ]
  /\ buffreq_msg_addr = 4
  /\ memresp_msg_data = 0

Next == Launch \/ LaunchUpdate \/ LaunchHelp \/ Rerun \/ Prompt

Spec == Init /\ [][Next]_vars

InitDpath ==
  /\ config = << >>
  /\ runscript = << >>
  /\ inv  = NoCall
  /\ out  = << >>
  /\ exit = 0
  /\ runs = 0
  /\ InitRegs
  /\ InitPorts

NextDpath == Tick

SpecDpath == InitDpath /\ [][NextDpath]_vars

-----------------------------------------------------------------------------
(* What the properties below speak of *)

\* this step makes a call: a first run, or the same call once more
Invoked == runs' = runs + 1

\* c runs launch_update: called directly, or dispatched to by launch
IsUpdateCall(c) ==
  \/ c.fn = "launch_update"
  \/ c.fn = "launch" /\ Len( c.args ) >= 1 /\ c.args[1] = "update"

\* the help flag as launch_update receives it
EffHelp(c) == IF c.fn = "launch" /\ Len( c.args ) > 1 THEN TRUE ELSE c.help_

\* a required flag is missing: key, value, or both of step and --all
MissingFlag(c) ==
  \/ c.key = None   \/ c.key = Some( "" )
  \/ c.value = None \/ c.value = Some( "" )
  \/ ( c.step = None /\ ~ c.all_ )

\* an update whose flags are all given and that does not ask for help
WellFormed(c) == IsUpdateCall( c ) /\ ~ EffHelp( c ) /\ ~ MissingFlag( c )

EndsWith(lines, suffix) ==
  /\ Len( lines ) >= Len( suffix )
  /\ SubSeq( lines, Len( lines ) - Len( suffix ) + 1, Len( lines ) ) = suffix

HasUsage(lines)   == EndsWith( lines, print_help )
UpdatedAt(lines)  == { i \in 1..Len( lines ) : lines[i].text = "Updated parameter" }
HasUpdated(lines) == UpdatedAt( lines ) # { }

\* the steps of graph cfg that call c addresses
Targets(c, cfg) ==
  IF c.all_ THEN DOMAIN cfg
  ELSE IF c.step = None THEN { } ELSE { c.step[1] } \cap DOMAIN cfg

HoldsKey(cfg, s, c) == c.key[1] \in DOMAIN cfg[s]

-----------------------------------------------------------------------------
(* Claims *)

\* C1: a `param update` call with a required flag missing (key or value
\* empty or unset, or neither a step nor --all) prints the usage text,
\* returns normally (status 0), leaves every StepConfig and RunScript as it
\* was and prints no "Updated parameter" line.
C1_MissingFlagShowsUsage ==
  [][ ( Invoked /\ IsUpdateCall( inv' ) /\ MissingFlag( inv' ) )
        => /\ HasUsage( out' )
           /\ exit' = 0
           /\ config' = config
           /\ runscript' = runscript
           /\ ~ HasUpdated( out' ) ]_vars

\* C1 witness: --value is the only flag missing, and the usage text came out.
C1_Witness ==
  /\ runs >= 1
  /\ IsUpdateCall( inv )
  /\ ~ EffHelp( inv )
  /\ inv.key = Some( "clock_period" )
  /\ inv.value = None
  /\ inv.all_
  /\ out = print_help

\* C2: launch with a first positional argument that is no supported command,
\* or with no positional argument and the help flag unset, prints the error
\* and exits non-zero; neither the usage text, the command list nor a
\* confirmation is printed and nothing is mutated.
C2_UnrecognizedCommandExits ==
  [][ ( /\ Invoked
        /\ inv'.fn = "launch"
        /\ \/ inv'.args = << >> /\ ~ inv'.help_
           \/ inv'.args # << >> /\ inv'.args[1] \notin { "update", "help" } )
        => /\ out' = UnrecognizedCommands
           /\ exit' # 0
           /\ config' = config
           /\ runscript' = runscript ]_vars

\* C2 witness: an unknown command, even with the help flag set, exits 1.
C2_Witness ==
  /\ runs >= 1
  /\ inv.fn = "launch"
  /\ inv.args = << "bogus" >>
  /\ inv.help_
  /\ exit = 1

\* C7: idempotence: the same update made twice in a row leaves the same
\* StepConfig state and prints the same outcome as making it once.
C7_UpdateIdempotent ==
  [][ ( Invoked /\ runs >= 1 /\ IsUpdateCall( inv ) )
        => /\ config' = config
           /\ out' = out
           /\ exit' = exit ]_vars

\* C7 witness: an update of a key that a step holds with another value has
\* been made twice and confirmed.
C7_Witness ==
  /\ runs = 2
  /\ WellFormed( inv )
  /\ HasUpdated( out )
  /\ inv.step # None
  /\ inv.step[1] \in DOMAIN config
  /\ HoldsKey( config, inv.step[1], inv )
  /\ config[inv.step[1]][inv.key[1]] # inv.value[1]

\* C8: launch with a valid command followed by further positional arguments
\* prints "param: Unrecognized positional args", forces the help flag and
\* still dispatches on args[0] with status 0: "update" prints the usage text
\* and never the confirmation, "help" prints the command list.
C8_ExtraArgsForceHelp ==
  [][ ( /\ Invoked
        /\ inv'.fn = "launch"
        /\ Len( inv'.args ) > 1
        /\ inv'.args[1] \in { "update", "help" } )
        => /\ exit' = 0
           /\ SubSeq( out', 1, 2 ) = UnrecognizedArgs
           /\ inv'.args[1] = "update"
                => out' = UnrecognizedArgs \o print_help /\ ~ HasUpdated( out' )
           /\ inv'.args[1] = "help"
                => out' = UnrecognizedArgs \o launch_help_lines ]_vars

\* C8 witness: an update with every flag given and one extra positional
\* argument showed the usage text.
C8_Witness ==
  /\ runs >= 1
  /\ inv.fn = "launch"
  /\ inv.args = << "update", "bogus" >>
  /\ ~ inv.help_
  /\ inv.key = Some( "clock_period" )
  /\ inv.value = Some( "2.0" )
  /\ inv.step = Some( 1 )
  /\ HasUsage( out )
  /\ exit = 0

\* C3: a successful update prints one confirmation line per affected step,
\* each naming that step: a single-step update prints exactly one line for
\* that step, an --all update that affects N steps prints N lines, one per
\* affected step identifier.
C3_OneConfirmationPerStep ==
  ( runs >= 1 /\ WellFormed( inv ) /\ exit = 0 /\ HasUpdated( out ) )
    => LET affected == IF inv.all_
                       THEN { s \in DOMAIN config : HoldsKey( config, s, inv ) }
                       ELSE { inv.step[1] }
       IN  /\ Cardinality( UpdatedAt( out ) ) = Cardinality( affected )
           /\ { out[i].step : i \in UpdatedAt( out ) }
                = { Some( s ) : s \in affected }
           /\ \A i \in UpdatedAt( out ) :
                out[i].key = inv.key /\ out[i].value = inv.value

\* C4: an update of a step that the graph does not hold mutates nothing,
\* ends with a non-zero status and is not reported as successful.  (Stated
\* for step identifiers other than 0, which C9 is about.)
C4_StepNotFound ==
  [][ ( /\ Invoked
        /\ WellFormed( inv' )
        /\ ~ inv'.all_
        /\ inv'.step[1] # 0
        /\ inv'.step[1] \notin DOMAIN config )
        => /\ config' = config
           /\ runscript' = runscript
           /\ exit' # 0
           /\ ~ HasUpdated( out' ) ]_vars

\* C5: update never inserts: a target step whose parameters do not hold the
\* key keeps its StepConfig and RunScript and is reported as skipped, not as
\* updated.
C5_UpdateNeverInserts ==
  [][ ( Invoked /\ WellFormed( inv' ) )
        => \A s \in Targets( inv', config ) :
             ~ HoldsKey( config, s, inv' )
               => /\ config'[s] = config[s]
                  /\ runscript'[s] = runscript[s]
                  /\ \A i \in UpdatedAt( out' ) :
                       out'[i].step # Some( s )
                  /\ \E i \in 1..Len( out' ) :
                       /\ out'[i].text # "Updated parameter"
                       /\ out'[i].step = Some( s )
                       /\ out'[i].key = inv'.key ]_vars

\* C6: after an update of an existing step that already holds the key has
\* completed and reported success, the step's parameters[key] is the value
\* and its RunScript is the one generated from that StepConfig.
C6_UpdateSetsValue ==
  [][ ( Invoked /\ WellFormed( inv' ) /\ exit' = 0 /\ HasUpdated( out' ) )
        => \A s \in Targets( inv', config ) :
             HoldsKey( config, s, inv' )
               => /\ HoldsKey( config', s, inv' )
                  /\ config'[s][inv'.key[1]] = inv'.value[1]
                  /\ runscript'[s] = GenerateRunScript( config'[s] ) ]_vars

\* C9: every call of launch_update prints exactly one of the usage text and
\* the confirmation line; the confirmation is printed exactly when the help
\* flag is false, key and value are non-empty and a targeting mode is given,
\* where any step identifier, step 0 included, is a targeting mode.
C9_UsageXorConfirmation ==
  ( runs >= 1 /\ IsUpdateCall( inv ) )
    => /\ HasUsage( out ) # HasUpdated( out )
       /\ HasUpdated( out ) <=> ( ~ EffHelp( inv ) /\ ~ MissingFlag( inv ) )

-----------------------------------------------------------------------------
(* InstBufferDpath *)

\* C10: in every cycle without reset, an entry whose bit of arrays_wen_mask
\* is 1 takes the tag of the registered request address and the data of
\* memresp_msg together, and an entry whose bit is 0 keeps both its tag and
\* its data.
C10_TagAndDataWrittenTogether ==
  [][ reset = 0
        => \A i \in Entries :
             /\ arrays_wen_mask[i] = 1
                  => /\ tag_array'[i]  = ( buffreq_addr_reg \div line_nbytes )
                     /\ data_array'[i] = memresp_msg_data
             /\ arrays_wen_mask[i] = 0
                  => /\ tag_array'[i]  = tag_array[i]
                     /\ data_array'[i] = data_array[i] ]_vars

\* C10 witness: entry 0 holds a line written earlier, and in this cycle only
\* entry 1 is written, with another tag and other data.
C10_Witness ==
  /\ reset = 0
  /\ arrays_wen_mask = [ i \in Entries |-> IF i = 1 THEN 1 ELSE 0 ]
  /\ tag_array[0] = 1
  /\ data_array[0] = 1
  /\ TagOf( buffreq_addr_reg ) = 0
  /\ memresp_msg_data = 0

=============================================================================
